---------------------------- MODULE Spec2Model ----------------------------
(***************************************************************************)
(* Model of the assistant bot of SevenHw.py: the field validators (Phone,  *)
(* Birthday), Record, AddressBook, the command handlers wrapped by         *)
(* input_error / check_args, get_upcoming_birthdays and the read loop of   *)
(* main.                                                                   *)
(*                                                                         *)
(* Python strings are TLA+ strings; chars gives the characters of those    *)
(* the code looks into (phones, birthdays), as one-character strings.      *)
(***************************************************************************)
EXTENDS Integers, Sequences, FiniteSets, TLC

(***************************************************************************)
(* Bounds of the model.                                                    *)
(***************************************************************************)
\* largest number of field values (phones and birthdays) held by the whole
\* address book
MaxFields == 3

(***************************************************************************)
(* Characters.                                                             *)
(***************************************************************************)
AsciiDigits == {"0", "1", "2", "3", "4", "5", "6", "7", "8", "9"}

\* U+00B2 SUPERSCRIPT TWO: str.isdigit() is True for it, str.isdecimal()
\* is False, and the \d of the re module does not match it.
Sup2 == "sup2"

DigitVal(c) ==
  CASE c = "0" -> 0 [] c = "1" -> 1 [] c = "2" -> 2 [] c = "3" -> 3
    [] c = "4" -> 4 [] c = "5" -> 5 [] c = "6" -> 6 [] c = "7" -> 7
    [] c = "8" -> 8 [] c = "9" -> 9

DigitChar(n) ==
  CASE n = 0 -> "0" [] n = 1 -> "1" [] n = 2 -> "2" [] n = 3 -> "3"
    [] n = 4 -> "4" [] n = 5 -> "5" [] n = 6 -> "6" [] n = 7 -> "7"
    [] n = 8 -> "8" [] n = 9 -> "9"

\* str.isdigit() of a one-character string
CharIsDigit(c) == c \in AsciiDigits \cup {Sup2}

(***************************************************************************)
(* The words of the input lines.                                           *)
(***************************************************************************)
Ann == "Ann"
Bob == "Bob"
Names == {Ann, Bob}

P1 == "1234567890"
P2 == "0987654321"
PSup == "sup2 x 10"
PShort == "123"
PAlpha == "12345678ab"
PhoneTokens == {P1, P2, PSup, PShort, PAlpha}

D1506 == "15.06.2024"
D0401 == "4.1.2024"
D2902 == "29.02.2024"
D2902x == "29.02.2023"
D3104 == "31.04.2024"
DateTokens == {D1506, D0401, D2902, D2902x, D3104}

\* the characters of a word
chars(s) ==
  CASE s = P1 -> <<"1", "2", "3", "4", "5", "6", "7", "8", "9", "0">>
    [] s = P2 -> <<"0", "9", "8", "7", "6", "5", "4", "3", "2", "1">>
    [] s = PSup -> [i \in 1..10 |-> Sup2]
    [] s = PShort -> <<"1", "2", "3">>
    [] s = PAlpha -> <<"1", "2", "3", "4", "5", "6", "7", "8", "a", "b">>
    [] s = D1506 -> <<"1", "5", ".", "0", "6", ".", "2", "0", "2", "4">>
    [] s = D0401 -> <<"4", ".", "1", ".", "2", "0", "2", "4">>
    [] s = D2902 -> <<"2", "9", ".", "0", "2", ".", "2", "0", "2", "4">>
    [] s = D2902x -> <<"2", "9", ".", "0", "2", ".", "2", "0", "2", "3">>
    [] s = D3104 -> <<"3", "1", ".", "0", "4", ".", "2", "0", "2", "4">>
    [] s = Ann -> <<"A", "n", "n">>
    [] s = Bob -> <<"B", "o", "b">>

\* len(s)
len(s) == Len(chars(s))

\* str.isdigit(): non-empty and every character is a digit
isdigit(s) == len(s) > 0 /\ \A i \in 1..len(s) : CharIsDigit(chars(s)[i])

(***************************************************************************)
(* Exceptions and messages.  An operation that can raise returns a record  *)
(* whose exc field is "None" or the exception class; msg is the argument   *)
(* of the exception.                                                       *)
(***************************************************************************)
NoVal == ""

Msg(text) == [text |-> text, name |-> NoVal, val |-> NoVal, n |-> 0,
              quoted |-> FALSE, lines |-> <<>>]

MsgName(text, name) == [Msg(text) EXCEPT !.name = name]

MsgVal(text, val) == [Msg(text) EXCEPT !.val = val]

\* str(KeyError(m)) is repr(m): the message in quotes
KeyErrorStr(m) == [m EXCEPT !.quoted = TRUE]

(***************************************************************************)
(* Phone                                                                   *)
(***************************************************************************)
Phone(value) ==
  IF ~(isdigit(value) /\ len(value) = 10)
    THEN [exc |-> "ValueError", msg |-> Msg("Invalid phone format. Use 10 digits"),
          value |-> NoVal]
    ELSE [exc |-> "None", msg |-> Msg(""), value |-> value]

(***************************************************************************)
(* Calendar: datetime.date                                                 *)
(***************************************************************************)
IsLeap(y) == y % 4 = 0 /\ (y % 100 # 0 \/ y % 400 = 0)

DaysInMonth(y, m) ==
  IF m = 2 THEN (IF IsLeap(y) THEN 29 ELSE 28)
  ELSE IF m \in {4, 6, 9, 11} THEN 30 ELSE 31

\* date(y, m, d) raises ValueError unless this holds
ValidDate(y, m, d) ==
  /\ y >= 1 /\ y <= 9999
  /\ m >= 1 /\ m <= 12
  /\ d >= 1 /\ d <= DaysInMonth(y, m)

MkDate(y, m, d) == [y |-> y, m |-> m, d |-> d]

DaysBeforeYear(y) ==
  (y - 1) * 365 + (y - 1) \div 4 - (y - 1) \div 100 + (y - 1) \div 400

RECURSIVE DaysBeforeMonth(_, _)
DaysBeforeMonth(y, m) ==
  IF m = 1 THEN 0 ELSE DaysBeforeMonth(y, m - 1) + DaysInMonth(y, m - 1)

\* date.toordinal()
toordinal(dt) == DaysBeforeYear(dt.y) + DaysBeforeMonth(dt.y, dt.m) + dt.d

\* date.weekday(): Monday is 0, Sunday is 6
weekday(dt) == (toordinal(dt) + 6) % 7

\* dt + timedelta(days=1)
NextDay(dt) ==
  IF dt.d < DaysInMonth(dt.y, dt.m) THEN MkDate(dt.y, dt.m, dt.d + 1)
  ELSE IF dt.m < 12 THEN MkDate(dt.y, dt.m + 1, 1)
  ELSE MkDate(dt.y + 1, 1, 1)

\* dt + timedelta(days=n), n >= 0
RECURSIVE AddDays(_, _)
AddDays(dt, n) == IF n = 0 THEN dt ELSE AddDays(NextDay(dt), n - 1)

\* date.replace(year=y): raises ValueError when the day does not exist in y
replace_year(dt, y) ==
  IF ValidDate(y, dt.m, dt.d)
    THEN [exc |-> "None", date |-> MkDate(y, dt.m, dt.d)]
    ELSE [exc |-> "ValueError", date |-> dt]

(***************************************************************************)
(* datetime.strptime(value, "%d.%m.%Y") and date.strftime("%d.%m.%Y")      *)
(***************************************************************************)
\* index of the first "." of s at or after position i, 0 when there is none
RECURSIVE FindDot(_, _)
FindDot(s, i) ==
  IF i > Len(s) THEN 0
  ELSE IF s[i] = "." THEN i
  ELSE FindDot(s, i + 1)

\* the directive %d: 3[0-1] | [1-2]\d | 0[1-9] | [1-9]
MatchesDay(t) ==
  \/ /\ Len(t) = 2
     /\ \/ t[1] = "3" /\ t[2] \in {"0", "1"}
        \/ t[1] \in {"1", "2"} /\ t[2] \in AsciiDigits
        \/ t[1] = "0" /\ t[2] \in AsciiDigits \ {"0"}
  \/ Len(t) = 1 /\ t[1] \in AsciiDigits \ {"0"}

\* the directive %m: 1[0-2] | 0[1-9] | [1-9]
MatchesMonth(t) ==
  \/ /\ Len(t) = 2
     /\ \/ t[1] = "1" /\ t[2] \in {"0", "1", "2"}
        \/ t[1] = "0" /\ t[2] \in AsciiDigits \ {"0"}
  \/ Len(t) = 1 /\ t[1] \in AsciiDigits \ {"0"}

\* the directive %Y: \d\d\d\d, and no unconverted data may remain
MatchesYear(t) == Len(t) = 4 /\ \A i \in 1..4 : t[i] \in AsciiDigits

\* int(t)
RECURSIVE ToInt(_)
ToInt(t) ==
  IF Len(t) = 0 THEN 0
  ELSE 10 * ToInt(SubSeq(t, 1, Len(t) - 1)) + DigitVal(t[Len(t)])

strptime(value) ==
  LET cs == chars(value)
      d1 == FindDot(cs, 1)
      d2 == IF d1 = 0 THEN 0 ELSE FindDot(cs, d1 + 1)
      dd == SubSeq(cs, 1, d1 - 1)
      mm == SubSeq(cs, d1 + 1, d2 - 1)
      yy == SubSeq(cs, d2 + 1, Len(cs))
      bad == [exc |-> "ValueError", date |-> MkDate(0, 0, 0)]
  IN IF d1 = 0 \/ d2 = 0 THEN bad
     ELSE IF ~(MatchesDay(dd) /\ MatchesMonth(mm) /\ MatchesYear(yy)) THEN bad
     ELSE IF ~ValidDate(ToInt(yy), ToInt(mm), ToInt(dd)) THEN bad
     ELSE [exc |-> "None", date |-> MkDate(ToInt(yy), ToInt(mm), ToInt(dd))]

Pad2(n) == <<DigitChar(n \div 10), DigitChar(n % 10)>>

Pad4(n) == <<DigitChar(n \div 1000), DigitChar((n \div 100) % 10),
             DigitChar((n \div 10) % 10), DigitChar(n % 10)>>

\* the characters of the string strftime returns
strftime(dt) == Pad2(dt.d) \o <<".">> \o Pad2(dt.m) \o <<".">> \o Pad4(dt.y)

(***************************************************************************)
(* Birthday                                                                *)
(***************************************************************************)
Birthday(value) ==
  IF strptime(value).exc # "None"
    THEN [exc |-> "ValueError", msg |-> Msg("Invalid date format. Use DD.MM.YYYY"),
          value |-> NoVal]
    ELSE [exc |-> "None", msg |-> Msg(""), value |-> value]

(***************************************************************************)
(* Record: name, phones (list, insertion order), birthday (None or the     *)
(* string a Birthday was built from).                                      *)
(***************************************************************************)
None == "None"

Record(name) == [name |-> name, phones |-> <<>>, birthday |-> None]

\* find_phone returning the last match instead of the first
RECURSIVE find_phone_last(_, _, _)
find_phone_last(phones, phone, i) ==
  IF i > Len(phones) THEN 0
  ELSE LET later == find_phone_last(phones, phone, i + 1)
       IN IF later # 0 THEN later
          ELSE IF phones[i] = phone THEN i
          ELSE 0

\* Record.find_phone: index of the first phone whose value is phone, 0 for
\* None
RECURSIVE find_phone_from(_, _, _)
find_phone_from(phones, phone, i) ==
  IF i > Len(phones) THEN 0
  ELSE IF phones[i] = phone THEN i
  ELSE find_phone_from(phones, phone, i + 1)

find_phone(rec, phone) == find_phone_from(rec.phones, phone, 1)

\* list.remove(obj) for the object found at index i: Phone defines no
\* __eq__, so the element removed is that very object
RemoveAt(s, i) == SubSeq(s, 1, i - 1) \o SubSeq(s, i + 1, Len(s))

\* Record.add_contact
Record_add_contact(rec, phone) ==
  LET p == Phone(phone)
  IN IF p.exc # "None"
       THEN [exc |-> p.exc, msg |-> p.msg, rec |-> rec]
       ELSE [exc |-> "None", msg |-> Msg(""),
             rec |-> [rec EXCEPT !.phones = Append(@, p.value)]]

\* change_phone without the "if not phone_obj: raise" check: an absent old
\* phone is skipped over and the new one appended
change_phone_unchecked(rec, old_phone, new_phone) ==
  LET phone_obj == find_phone_from(rec.phones, old_phone, 1)
      removed == IF phone_obj = 0 THEN rec
                 ELSE [rec EXCEPT !.phones = SubSeq(@, 1, phone_obj - 1)
                                               \o SubSeq(@, phone_obj + 1, Len(@))]
      p == Phone(new_phone)
  IN IF p.exc # "None"
       THEN [exc |-> p.exc, msg |-> p.msg, rec |-> removed]
       ELSE [exc |-> "None", msg |-> Msg(""),
             rec |-> [removed EXCEPT !.phones = Append(@, p.value)]]

\* Record.change_phone
change_phone(rec, old_phone, new_phone) ==
  LET phone_obj == find_phone(rec, old_phone)
      removed == [rec EXCEPT !.phones = RemoveAt(@, phone_obj)]
      p == Phone(new_phone)
  IN IF phone_obj = 0
       THEN [exc |-> "ValueError", msg |-> MsgVal("Phone not found", old_phone),
             rec |-> rec]
     ELSE IF p.exc # "None"
       THEN [exc |-> p.exc, msg |-> p.msg, rec |-> removed]
     ELSE [exc |-> "None", msg |-> Msg(""),
           rec |-> [removed EXCEPT !.phones = Append(@, p.value)]]

\* Record.add_birthday
Record_add_birthday(rec, birthday) ==
  LET b == Birthday(birthday)
  IN IF b.exc # "None"
       THEN [exc |-> b.exc, msg |-> b.msg, rec |-> rec]
       ELSE [exc |-> "None", msg |-> Msg(""),
             rec |-> [rec EXCEPT !.birthday = b.value]]

\* Record.__str__: the parts of the line
Record_str(rec) ==
  [name |-> rec.name, phones |-> rec.phones,
   nophones |-> (Len(rec.phones) = 0), birthday |-> rec.birthday]

(***************************************************************************)
(* AddressBook: UserDict.data, a dict in insertion order, as the sequence  *)
(* of its items [key, rec].                                                *)
(***************************************************************************)
RECURSIVE KeyIndexFrom(_, _, _)
KeyIndexFrom(data, key, i) ==
  IF i > Len(data) THEN 0
  ELSE IF data[i].key = key THEN i
  ELSE KeyIndexFrom(data, key, i + 1)

\* position of key in the dict, 0 when it is not a key
KeyIndex(data, key) == KeyIndexFrom(data, key, 1)

\* AddressBook.add_record: self.data[record.name.value] = record
add_record(data, record) ==
  LET i == KeyIndex(data, record.name)
  IN IF i = 0 THEN Append(data, [key |-> record.name, rec |-> record])
     ELSE [data EXCEPT ![i].rec = record]

\* AddressBook.get_record: self.data.get(name); HasRecord is "is not None"
HasRecord(data, name) == KeyIndex(data, name) # 0

get_record(data, name) == data[KeyIndex(data, name)].rec

(***************************************************************************)
(* Decorators                                                              *)
(***************************************************************************)
\* input_error: what the wrapped handler r returns or raises becomes the
\* string that is printed
input_error(r) ==
  [data |-> r.data,
   out |-> IF r.exc = "None" THEN r.ret
           ELSE IF r.exc = "IndexError" THEN Msg("Enter correct command")
           ELSE IF r.exc = "ValueError" THEN r.msg
           ELSE IF r.exc = "KeyError" THEN KeyErrorStr(r.msg)
           ELSE Msg("Wrong input")]

Raise(data, exc, msg) == [data |-> data, exc |-> exc, msg |-> msg, ret |-> Msg("")]

Return(data, ret) == [data |-> data, exc |-> "None", msg |-> Msg(""), ret |-> ret]

\* check_args(min_args): raises before the handler runs
check_args(min_args, data, args, body) ==
  IF Len(args) < min_args
    THEN Raise(data, "ValueError",
               [Msg("Not enough arguments. Expected at least") EXCEPT !.n = min_args])
    ELSE body

\* a tuple assignment of args to k names
Unpacks(args, k) == Len(args) = k

UnpackError(data, args, k) ==
  Raise(data, "ValueError",
        [Msg(IF Len(args) > k THEN "too many values to unpack"
                              ELSE "not enough values to unpack") EXCEPT !.n = k])

(***************************************************************************)
(* Command handlers                                                        *)
(***************************************************************************)
\* the loop catching each phone's error and going on with the next phone
RECURSIVE AddPhonesSkipping(_, _)
AddPhonesSkipping(rec, phones) ==
  IF Len(phones) = 0 THEN [exc |-> "None", msg |-> Msg(""), rec |-> rec]
  ELSE LET r == Record_add_contact(rec, Head(phones))
           rest == AddPhonesSkipping(r.rec, Tail(phones))
       IN IF r.exc # "None" THEN [exc |-> r.exc, msg |-> r.msg, rec |-> rest.rec]
          ELSE rest

\* the loop "for phone in phones: record.add_contact(phone)": stops at the
\* first phone that raises
RECURSIVE AddPhones(_, _)
AddPhones(rec, phones) ==
  IF Len(phones) = 0 THEN [exc |-> "None", msg |-> Msg(""), rec |-> rec]
  ELSE LET r == Record_add_contact(rec, Head(phones))
       IN IF r.exc # "None" THEN r ELSE AddPhones(r.rec, Tail(phones))

\* add_contact without the "if record is None" test: a Record is created
\* and stored on every call
add_contact_always_new(data, args) ==
  LET name == Head(args)
      phones == Tail(args)
      isNew == ~HasRecord(data, name)
      data1 == add_record(data, Record(name))
      at == KeyIndex(data1, Record(name).name)
      r == AddPhones(data1[at].rec, phones)
      data2 == [data1 EXCEPT ![at].rec = r.rec]
  IN IF r.exc # "None" THEN Raise(data2, r.exc, r.msg)
     ELSE Return(data2, Msg(IF isNew THEN "Contact added." ELSE "Contact updated."))

add_contact_body(data, args) ==
  LET name == Head(args)
      phones == Tail(args)
      isNew == ~HasRecord(data, name)
      data1 == IF isNew THEN add_record(data, Record(name)) ELSE data
      at == IF isNew THEN KeyIndex(data1, Record(name).name) ELSE KeyIndex(data, name)
      r == AddPhones(data1[at].rec, phones)
      data2 == [data1 EXCEPT ![at].rec = r.rec]
  IN IF r.exc # "None" THEN Raise(data2, r.exc, r.msg)
     ELSE Return(data2, Msg(IF isNew THEN "Contact added." ELSE "Contact updated."))

add_contact(data, args) ==
  input_error(check_args(1, data, args, add_contact_body(data, args)))

change_contact_body(data, args) ==
  LET name == args[1]
      old_phone == args[2]
      new_phone == args[3]
      at == KeyIndex(data, name)
      r == change_phone(data[at].rec, old_phone, new_phone)
      data1 == [data EXCEPT ![at].rec = r.rec]
  IN IF ~Unpacks(args, 3) THEN UnpackError(data, args, 3)
     ELSE IF ~HasRecord(data, name)
       THEN Raise(data, "KeyError", MsgName("No such contact:", name))
     ELSE IF r.exc # "None" THEN Raise(data1, r.exc, r.msg)
     ELSE Return(data1, MsgName("Phone changed for", name))

change_contact(data, args) ==
  input_error(check_args(3, data, args, change_contact_body(data, args)))

show_phone_body(data, args) ==
  LET name == args[1]
      record == get_record(data, name)
  IN IF ~HasRecord(data, name)
       THEN Raise(data, "KeyError", MsgName("No such contact:", name))
     ELSE IF Len(record.phones) = 0 THEN Return(data, Msg("No phones"))
     ELSE Return(data, [Msg("phones") EXCEPT !.lines = record.phones])

show_phone(data, args) ==
  input_error(check_args(1, data, args, show_phone_body(data, args)))

add_birthday_body(data, args) ==
  LET name == args[1]
      birthday == args[2]
      at == KeyIndex(data, name)
      r == Record_add_birthday(data[at].rec, birthday)
      data1 == [data EXCEPT ![at].rec = r.rec]
  IN IF ~Unpacks(args, 2) THEN UnpackError(data, args, 2)
     ELSE IF ~HasRecord(data, name)
       THEN Raise(data, "KeyError", MsgName("No such contact:", name))
     ELSE IF r.exc # "None" THEN Raise(data1, r.exc, r.msg)
     ELSE Return(data1, [MsgName("Birthday added for", name) EXCEPT !.val = birthday])

add_birthday(data, args) ==
  input_error(check_args(2, data, args, add_birthday_body(data, args)))

show_birthday_body(data, args) ==
  LET name == args[1]
      record == get_record(data, name)
  IN IF ~HasRecord(data, name) \/ record.birthday = None
       THEN Return(data, MsgName("No birthday set for", name))
       ELSE Return(data, [MsgName("'s birthday is", name) EXCEPT !.val = record.birthday])

show_birthday(data, args) ==
  input_error(check_args(1, data, args, show_birthday_body(data, args)))

(***************************************************************************)
(* get_upcoming_birthdays                                                  *)
(***************************************************************************)
\* The body of the loop for one record with a birthday gives the entry
\* appended (add), nothing, or the ValueError of date.replace.  Each step
\* below takes the values the earlier lines of the body computed.
NoEntry(rec, exc) ==
  [exc |-> exc, add |-> FALSE, entry |-> [name |-> rec.name, birthday |-> <<>>]]

\* lines 195-196: a Saturday or Sunday moves to the following Monday
Roll(birthday_this_year, wd) ==
  IF wd \in {5, 6} THEN AddDays(birthday_this_year, 7 - wd) ELSE birthday_this_year

\* lines 194-200
UpcomingEntry(rec, days, birthday_this_year, days_diff) ==
  IF 0 <= days_diff /\ days_diff < days
    THEN [exc |-> "None", add |-> TRUE,
          entry |-> [name |-> rec.name,
                     birthday |-> strftime(Roll(birthday_this_year,
                                                weekday(birthday_this_year)))]]
    ELSE NoEntry(rec, "None")

\* lines 193-200, r2 being the outcome of lines 190-191
UpcomingDiff(rec, today, days, r2) ==
  IF r2.exc # "None" THEN NoEntry(rec, r2.exc)
  ELSE UpcomingEntry(rec, days, r2.date, toordinal(r2.date) - toordinal(today))

\* lines 190-200, r1 being the outcome of line 188
UpcomingThisYear(rec, today, days, r1) ==
  IF r1.exc # "None" THEN NoEntry(rec, r1.exc)
  ELSE UpcomingDiff(rec, today, days,
                    IF toordinal(r1.date) < toordinal(today)
                      THEN replace_year(r1.date, today.y + 1)
                      ELSE r1)

\* lines 187-200
UpcomingOf(rec, today, days) ==
  UpcomingThisYear(rec, today, days,
                   replace_year(strptime(rec.birthday).date, today.y))

\* the loop over book.data.values() from position i on, upcoming being the
\* list built so far
RECURSIVE UpcomingFrom(_, _, _, _, _)

\* the rest of the loop after the body gave u for the record at position i
UpcomingNext(data, today, days, i, upcoming, u) ==
  IF u.exc # "None" THEN [exc |-> u.exc, list |-> upcoming]
  ELSE UpcomingFrom(data, today, days, i + 1,
                    IF u.add THEN Append(upcoming, u.entry) ELSE upcoming)

UpcomingFrom(data, today, days, i, upcoming) ==
  IF i > Len(data) THEN [exc |-> "None", list |-> upcoming]
  ELSE IF data[i].rec.birthday = None
    THEN UpcomingFrom(data, today, days, i + 1, upcoming)
  ELSE UpcomingNext(data, today, days, i, upcoming,
                    UpcomingOf(data[i].rec, today, days))

\* the default of the parameter days
DefaultDays == 7

get_upcoming_birthdays(data, today, days) == UpcomingFrom(data, today, days, 1, <<>>)

(***************************************************************************)
(* Input lines.  A line is its first word and the words after it; a blank  *)
(* line has the first word "".                                             *)
(***************************************************************************)
\* the values date.today() takes
Todays ==
  {MkDate(2023, 12, 28), MkDate(2023, 12, 29), MkDate(2023, 12, 30),
   MkDate(2024, 1, 4), MkDate(2024, 2, 26), MkDate(2024, 6, 10),
   MkDate(2024, 12, 30),
   MkDate(2025, 12, 30)}

NoDate == MkDate(0, 0, 0)

\* The arguments of the lines.  The code treats every name alike, so the
\* lines about the second contact are fewer.
AddPhoneLists ==
  {<<>>, <<P1>>, <<P2>>, <<PShort>>, <<PAlpha>>,
   <<P1, P2>>, <<P2, P1>>, <<P1, P1>>, <<P1, PShort>>, <<PAlpha, P1>>,
   <<P1, PAlpha, P2>>}

AddArgs ==
  {<<>>, <<Bob>>, <<Bob, PSup>>}
    \cup {<<Ann>> \o ps : ps \in AddPhoneLists}

ChangeArgs ==
  {<<>>, <<Ann, P1>>, <<Ann, P1, P2, P1>>, <<Bob, P2, P1>>}
    \cup {<<Ann, o, w>> : o \in {P1, P2}, w \in {P1, P2, PShort, PAlpha}}

PhoneArgs == {<<>>} \cup {<<n>> : n \in Names}

AddBirthdayArgs ==
  {<<Ann>>, <<Ann, D2902, D2902>>, <<Bob, D2902>>}
    \cup {<<Ann, d>> : d \in DateTokens}

ShowBirthdayArgs == {<<>>} \cup {<<n>> : n \in Names}

Line(word, rest) == [word |-> word, rest |-> rest]

\* str.lower() of the first word
lower(w) == CASE w = "EXIT" -> "exit" [] w = "Hello" -> "hello" [] OTHER -> w

parse_input(line) ==
  IF line.word = "" THEN [command |-> "None", args |-> <<>>]
  ELSE [command |-> lower(line.word), args |-> line.rest]

(***************************************************************************)
(* main                                                                    *)
(***************************************************************************)
VARIABLES
  data,      \* book.data, the items of the dict in insertion order
  pc,        \* "loop": at input(); "exited": after break; "crashed": an
             \* exception left main
  command,   \* the verb of the line read last
  args,      \* its arguments
  today,     \* date.today() of the birthdays query run last, else NoDate
  result     \* what the last command printed

vars == <<data, pc, command, args, today, result>>

\* the number of phones and birthdays held by the book
RECURSIVE SumFields(_, _)
SumFields(d, i) ==
  IF i > Len(d) THEN 0
  ELSE Len(d[i].rec.phones) + (IF d[i].rec.birthday = None THEN 0 ELSE 1)
         + SumFields(d, i + 1)

TotalFields(d) == SumFields(d, 1)

Init ==
  /\ data = <<>>
  /\ pc = "loop"
  /\ command = "None"
  /\ args = <<>>
  /\ today = NoDate
  /\ result = Msg("Welcome to the assistant bot!")

\* one turn of the loop for a line whose command has a handler
Read(line, verb) ==
  /\ pc = "loop"
  /\ parse_input(line).command = verb
  /\ command' = parse_input(line).command
  /\ args' = parse_input(line).args

Exit ==
  /\ \E w \in {"close", "exit", "EXIT"} : Read(Line(w, <<>>), lower(w))
  /\ result' = Msg("Good bye!")
  /\ pc' = "exited"
  /\ UNCHANGED data
  /\ today' = NoDate

Hello ==
  /\ \E w \in {"hello", "Hello"} : Read(Line(w, <<>>), "hello")
  /\ result' = Msg("How can I help you?")
  /\ UNCHANGED <<data, pc>>
  /\ today' = NoDate

Add ==
  /\ \E a \in AddArgs : Read(Line("add", a), "add")
  /\ LET r == add_contact(data, args')
     IN data' = r.data /\ result' = r.out
  /\ TotalFields(data') <= MaxFields
  /\ UNCHANGED pc
  /\ today' = NoDate

Change ==
  /\ \E a \in ChangeArgs : Read(Line("change", a), "change")
  /\ LET r == change_contact(data, args')
     IN data' = r.data /\ result' = r.out
  /\ UNCHANGED pc
  /\ today' = NoDate

ShowPhone ==
  /\ \E a \in PhoneArgs : Read(Line("phone", a), "phone")
  /\ LET r == show_phone(data, args')
     IN data' = r.data /\ result' = r.out
  /\ UNCHANGED pc
  /\ today' = NoDate

AddBirthday ==
  /\ \E a \in AddBirthdayArgs : Read(Line("add-birthday", a), "add-birthday")
  /\ LET r == add_birthday(data, args')
     IN data' = r.data /\ result' = r.out
  /\ TotalFields(data') <= MaxFields
  /\ UNCHANGED pc
  /\ today' = NoDate

ShowBirthday ==
  /\ \E a \in ShowBirthdayArgs : Read(Line("show-birthday", a), "show-birthday")
  /\ LET r == show_birthday(data, args')
     IN data' = r.data /\ result' = r.out
  /\ UNCHANGED pc
  /\ today' = NoDate

\* the birthdays branch of main: get_upcoming_birthdays is not wrapped by
\* input_error, so what it raises leaves main
BirthdaysBranch(upcoming) ==
  IF upcoming.exc # "None"
    THEN [pc |-> "crashed", out |-> Msg("Traceback: ValueError")]
  ELSE IF Len(upcoming.list) > 0
    THEN [pc |-> "loop", out |-> [Msg("birthdays") EXCEPT !.lines = upcoming.list]]
  ELSE [pc |-> "loop", out |-> Msg("No upcoming birthdays")]

Birthdays ==
  /\ Read(Line("birthdays", <<>>), "birthdays")
  /\ \E t \in Todays :
       /\ today' = t
       /\ LET b == BirthdaysBranch(get_upcoming_birthdays(data, t, DefaultDays))
          IN pc' = b.pc /\ result' = b.out
  /\ UNCHANGED data

All ==
  /\ Read(Line("all", <<>>), "all")
  /\ result' = IF Len(data) > 0
                 THEN [Msg("all") EXCEPT !.lines = [i \in 1..Len(data) |-> Record_str(data[i].rec)]]
                 ELSE Msg("Address book is empty")
  /\ UNCHANGED <<data, pc>>
  /\ today' = NoDate

Invalid ==
  /\ \E w \in {"", "remove"} : Read(Line(w, <<>>), parse_input(Line(w, <<>>)).command)
  /\ result' = Msg("Invalid command.")
  /\ UNCHANGED <<data, pc>>
  /\ today' = NoDate

Next ==
  \/ Exit
  \/ Hello
  \/ Add
  \/ Change
  \/ ShowPhone
  \/ AddBirthday
  \/ ShowBirthday
  \/ Birthdays
  \/ All
  \/ Invalid

Spec == Init /\ [][Next]_vars

(***************************************************************************)
(* Vocabulary of the properties.                                           *)
(***************************************************************************)
\* the error kinds of the printed result
IsInvalidFormat(r) ==
  r.text \in {"Invalid phone format. Use 10 digits", "Invalid date format. Use DD.MM.YYYY"}

IsNotFound(r) == r.text \in {"No such contact:", "Phone not found"}

\* a string of exactly 10 decimal digits
TenDigits(s) == len(s) = 10 /\ \A i \in 1..10 : chars(s)[i] \in AsciiDigits

\* a phone the Phone constructor takes
Accepted(p) == Phone(p).exc = "None"

\* the keys of a dict
Keys(d) == {d[i].key : i \in 1..Len(d)}

\* the Record stored under key n
RecordAt(d, n) == d[CHOOSE i \in 1..Len(d) : d[i].key = n].rec

\* every item of d other than the one under key n is in e, at the same place
OthersUnchanged(d, e, n) ==
  \A i \in 1..Len(d) : d[i].key # n => (i <= Len(e) /\ e[i] = d[i])

\* DD.MM.YYYY, zero-padded, naming an existing date
PaddedDate(s) ==
  LET c == chars(s)
      num(i) == DigitVal(c[i])
  IN /\ Len(c) = 10
     /\ c[3] = "." /\ c[6] = "."
     /\ \A i \in {1, 2, 4, 5, 7, 8, 9, 10} : c[i] \in AsciiDigits
     /\ LET d == 10 * num(1) + num(2)
            m == 10 * num(4) + num(5)
            y == 1000 * num(7) + 100 * num(8) + 10 * num(9) + num(10)
        IN /\ y >= 1 /\ m \in 1..12 /\ d >= 1
           /\ d <= (IF m = 2 THEN (IF y % 4 = 0 /\ (y % 100 # 0 \/ y % 400 = 0) THEN 29 ELSE 28)
                    ELSE IF m \in {4, 6, 9, 11} THEN 30 ELSE 31)

(***************************************************************************)
(* C1                                                                      *)
(***************************************************************************)
\* C1: "add n p1..pk" with every phone accepted: for a new name exactly one
\* Record keyed n is inserted (at the end, without birthday) and the result
\* is "Contact added."; for a known name no Record is created or replaced
\* and the result is "Contact updated."; in both cases p1..pk are appended
\* in argument order after the phones n already had, and no other Record
\* changes.
C1_AddAppends ==
  [][(command' = "add" /\ Len(args') >= 1
        /\ \A i \in 2..Len(args') : Accepted(args'[i]))
     => LET n == args'[1]
            ps == Tail(args')
        IN /\ Keys(data') = Keys(data) \cup {n}
           /\ OthersUnchanged(data, data', n)
           /\ RecordAt(data', n).name = n
           /\ IF n \in Keys(data)
                THEN /\ result'.text = "Contact updated."
                     /\ Len(data') = Len(data)
                     /\ RecordAt(data', n).phones = RecordAt(data, n).phones \o ps
                     /\ RecordAt(data', n).birthday = RecordAt(data, n).birthday
                ELSE /\ result'.text = "Contact added."
                     /\ Len(data') = Len(data) + 1
                     /\ data'[Len(data')].key = n
                     /\ RecordAt(data', n).phones = ps
                     /\ RecordAt(data', n).birthday = None]_vars

\* C1 witness: "add Ann p2" has run on the Record "add Ann p1" created, and
\* Ann holds [p1, p2] with the result "Contact updated."
C1_Witness ==
  /\ command = "add" /\ args = <<Ann, P2>>
  /\ result.text = "Contact updated."
  /\ Ann \in Keys(data)
  /\ RecordAt(data, Ann).phones = <<P1, P2>>

(***************************************************************************)
(* C2                                                                      *)
(***************************************************************************)
\* the day of today .. today + 6 that has the birthday's day and month, as
\* the set of its offsets (empty or one offset)
WindowOffsets(b, t) ==
  {k \in 0..6 : AddDays(t, k).m = b.m /\ AddDays(t, k).d = b.d}

\* the date shown for an occurrence: the following Monday for a Saturday or
\* a Sunday
ShownDate(dt) ==
  IF weekday(dt) = 5 THEN AddDays(dt, 2)
  ELSE IF weekday(dt) = 6 THEN AddDays(dt, 1)
  ELSE dt

\* C2: after "birthdays", a Record with a birthday is listed if and only if
\* the next occurrence of its day and month is 0 to 6 days after today; the
\* date listed is that occurrence, or the following Monday when it is a
\* Saturday or a Sunday, so it is never a Saturday or Sunday.
C2_Window ==
  command = "birthdays" =>
    \A i \in 1..Len(data) :
      data[i].rec.birthday # None =>
        LET rec == data[i].rec
            offs == WindowOffsets(strptime(rec.birthday).date, today)
            listed == {j \in 1..Len(result.lines) : result.lines[j].name = rec.name}
        IN /\ (listed # {}) <=> (offs # {})
           /\ \A j \in listed : \A k \in offs :
                /\ result.lines[j].birthday = strftime(ShownDate(AddDays(today, k)))
                /\ weekday(ShownDate(AddDays(today, k))) \notin {5, 6}

(***************************************************************************)
(* C3                                                                      *)
(***************************************************************************)
\* C3: no command ends the process with an uncaught error: the loop is left
\* only by the verbs close and exit.
C3_OnlyExitStops ==
  pc # "loop" => (pc = "exited" /\ command \in {"close", "exit"})

(***************************************************************************)
(* C4                                                                      *)
(***************************************************************************)
\* C4: "change name old new" on a known contact holding old, with new not a
\* string of exactly 10 digits, fails with InvalidFormat and leaves the
\* phone list as it was.
C4_ValidateBeforeRemove ==
  [][(command' = "change" /\ Len(args') = 3
        /\ args'[1] \in Keys(data)
        /\ (\E i \in 1..Len(RecordAt(data, args'[1]).phones) :
              RecordAt(data, args'[1]).phones[i] = args'[2])
        /\ ~TenDigits(args'[3]))
     => (IsInvalidFormat(result') /\ data' = data)]_vars

(***************************************************************************)
(* C5                                                                      *)
(***************************************************************************)
\* C5: "change name old new" with name unknown, or with old not among the
\* phones of name, gives a NotFound result and leaves the whole directory
\* unchanged, whatever new is.
C5_NotFoundUnchanged ==
  [][(command' = "change" /\ Len(args') = 3
        /\ \/ args'[1] \notin Keys(data)
           \/ \A i \in 1..Len(RecordAt(data, args'[1]).phones) :
                RecordAt(data, args'[1]).phones[i] # args'[2])
     => (IsNotFound(result') /\ data' = data)]_vars

\* C5 witness: a change of a phone Ann does not hold (she holds another
\* one) to an invalid new phone has answered "Phone not found".
C5_Witness ==
  /\ command = "change" /\ args = <<Ann, P2, PShort>>
  /\ result.text = "Phone not found"
  /\ Ann \in Keys(data)
  /\ RecordAt(data, Ann).phones = <<P1>>

C7_UnknownNameNotFound ==
  (command = "show-birthday" /\ Len(args) >= 1 /\ args[1] \notin Keys(data))
    => (IsNotFound(result) /\ result.text # "No birthday set for")

(***************************************************************************)
(* C8                                                                      *)
(***************************************************************************)
\* C8: "add-birthday name value" on a known contact succeeds if and only if
\* value is a zero-padded DD.MM.YYYY naming an existing date; on rejection
\* the result is InvalidFormat and the birthday is unchanged; an accepted
\* birthday is stored as the string given.
C8_BirthdayFormat ==
  [][(command' = "add-birthday" /\ Len(args') = 2 /\ args'[1] \in Keys(data))
     => IF PaddedDate(args'[2])
          THEN /\ result'.text = "Birthday added for"
               /\ RecordAt(data', args'[1]).birthday = args'[2]
          ELSE /\ IsInvalidFormat(result')
               /\ data' = data]_vars

(***************************************************************************)
(* C9                                                                      *)
(***************************************************************************)
\* C9: a successful "change name old new" removes the first occurrence of
\* old and appends new: same length, the other phones in their order, the
\* birthday and every other Record unchanged.
C9_ChangeFirstOccurrence ==
  [][(command' = "change" /\ Len(args') = 3
        /\ args'[1] \in Keys(data)
        /\ (\E i \in 1..Len(RecordAt(data, args'[1]).phones) :
              RecordAt(data, args'[1]).phones[i] = args'[2])
        /\ Accepted(args'[3]))
     => LET n == args'[1]
            old == RecordAt(data, n).phones
            new == RecordAt(data', n).phones
            k == CHOOSE i \in 1..Len(old) :
                   old[i] = args'[2] /\ \A j \in 1..(i - 1) : old[j] # args'[2]
        IN /\ result'.text = "Phone changed for"
           /\ Keys(data') = Keys(data)
           /\ Len(new) = Len(old)
           /\ \A i \in 1..Len(old) :
                new[i] = IF i < k THEN old[i]
                         ELSE IF i < Len(old) THEN old[i + 1]
                         ELSE args'[3]
           /\ RecordAt(data', n).birthday = RecordAt(data, n).birthday
           /\ RecordAt(data', n).name = n
           /\ OthersUnchanged(data, data', n)]_vars

\* C9 witness: "change Ann p1 p2" has run on [p1, p2, p1] with a second
\* contact in the directory: the first p1 is gone and p2 is at the end.
C9_Witness ==
  /\ command = "change" /\ args = <<Ann, P1, P2>>
  /\ result.text = "Phone changed for"
  /\ Keys(data) = {Ann, Bob}
  /\ RecordAt(data, Ann).phones = <<P2, P1, P2>>

(***************************************************************************)
(* C10                                                                     *)
(***************************************************************************)
\* C10: every phone stored in the directory is a string of exactly 10
\* decimal digits, every Record is stored under the key equal to its name,
\* and no two items have the same key.
C10_StoredPhonesValid ==
  /\ \A i \in 1..Len(data) :
       /\ data[i].key = data[i].rec.name
       /\ \A j \in 1..Len(data[i].rec.phones) : TenDigits(data[i].rec.phones[j])
  /\ \A i, j \in 1..Len(data) : data[i].key = data[j].key => i = j

=============================================================================
